---- MODULE Spec2Model ----
(***************************************************************************)
(* State-machine model of the portfolio page's signal system:             *)
(* AppContent (target registry, active signals, Hit State), SignalPacket  *)
(* (random target picks, path stages, the two hit timers), SkillNode and  *)
(* TimelineItem (target registration), ErrorBoundary (tree teardown).     *)
(* Terminal and VimCommandPalette (command texts, theme) are modelled     *)
(* beside it, with their own specification, and so are BootSequence with  *)
(* the mobile warning, the vim keys of AppContent and CyberText.          *)
(*                                                                         *)
(* Time is discrete.  One tick is half of the shortest timer of the       *)
(* program (the 500 ms hit expiry), so that two calls can fall strictly   *)
(* inside one highlight window.  A setTimeout callback runs in the tick   *)
(* in which it is due: Tick is disabled while any timer is due.  Timers   *)
(* due in the same tick run in any order.                                 *)
(***************************************************************************)
EXTENDS Integers, Sequences, FiniteSets, TLC

VARIABLES
    nSkill,        \* number of <SkillNode> elements of the page
    nTrace,        \* number of TRACE_DATA entries (<TimelineItem> elements)
    bootComplete,  \* AppContent state bootComplete
    viewMode,      \* AppContent state viewMode: "log" | "wave"
    traceGen,      \* how many times the timeline list has been mounted
    hasError,      \* ErrorBoundary state hasError (AppContent unmounted)
    error,         \* ErrorBoundary state error
    scrollY,       \* window.scrollY
    targets,       \* AppContent ref targets: [skills: Seq, trace: Seq]
    signals,       \* AppContent state signals (each with its age in ticks)
    activeHits,    \* AppContent state activeHits
    removals,      \* pending setTimeout(..., 2500) of emitSignal, oldest first
    expiries,      \* pending setTimeout(..., 500) of hitTarget, oldest first
    packets,       \* mounted SignalPacket instances, aligned with signals
    hitTimers,     \* pending t1 / t2 timeouts of SignalPacket instances
    reRegistered,  \* a registerTarget call found its handle already present
    theme,         \* AppContent state theme: "default" | "silicon" | "light"
    history,       \* Terminal state history
    terminalInput, \* Terminal state input
    isOpen,        \* VimCommandPalette prop isOpen (state of its parent)
    paletteInput,  \* VimCommandPalette state input
    output,        \* VimCommandPalette state output
    effects,       \* what the last submit handler did outside its own state
    lastCall,      \* the last submit: which form, which text
    submits,       \* number of submits so far
    layout,        \* page layout: document y of the first element of each category
    innerWidth,        \* window.innerWidth
    showMobileWarning, \* AppContent state showMobileWarning
    bootInst,      \* number of BootSequence instances whose mount effect has run
    lines,         \* BootSequence state lines (of the mounted instance)
    bootTimers,    \* pending timeouts of BootSequence instances
    bootEvents,    \* the timeouts of BootSequence that have run, oldest first
    clock,         \* time since the page was loaded, in boot ticks
    now,           \* Date.now(), in ticks
    lastKeyTime,   \* handleKeyDown closure variable lastKeyTime
    gCount,        \* handleKeyDown closure variable gCount
    lastEvent,     \* the last keydown event and what the handler did with it
    prevG,         \* the last g keydown the handler accepted
    displayText,   \* CyberText state displayText
    scrambles      \* the intervals started by scramble(), oldest first

signalVars == <<nSkill, nTrace, bootComplete, viewMode, traceGen, hasError, error, scrollY,
                targets, signals, activeHits, removals, expiries, packets,
                hitTimers, reRegistered>>

commandVars == <<theme, history, terminalInput, isOpen, paletteInput, output,
                 effects, lastCall, submits>>

bootVars == <<innerWidth, showMobileWarning, bootInst, lines, bootTimers, bootEvents, clock>>

keyVars == <<now, lastKeyTime, gCount, lastEvent, prevG>>

cyberVars == <<displayText, scrambles>>

pageVars == <<layout, bootVars, keyVars, cyberVars>>

vars == <<signalVars, commandVars, pageVars>>

---------------------------------------------------------------------------
(* Bounds of the model *)

\* <SkillNode> elements in the largest page configuration
NumSkillNodes == 3
\* TRACE_DATA entries in the largest page configuration
NumTimelineItems == 2
\* emitSignal calls within one signal lifetime (pending removal timeouts)
MaxSignals == 2
\* times the timeline list is mounted again after a switch to the waveform
MaxRemounts == 1
\* distinct strings Math.random().toString(36).substr(2, 9) can return
NumIds == 2
\* MethodologyCard elements the pointer enters
NumCards == 1
\* j / k key presses the page can be scrolled down by
MaxScrollSteps == 1
\* commands submitted to the Terminal and the command palette in one run
MaxSubmits == 2
\* lines of bootLog that BootSequence prints
NumBootLines == 3
\* ticks of Date.now() the key presses are spread over
MaxKeyTicks == 5
\* characters of the text prop of CyberText
TextLen == 2
\* scramble() calls of one CyberText: the mount effect and mouse-enters
MaxScrambles == 2

---------------------------------------------------------------------------
(* Program constants *)

LifetimeMs == 2500
HitMs == 500
MidHitMs == 1000
EndHitMs == 2000
FallbackDy == 800
ScrollStep == 300

TickMs == HitMs \div 2
Ticks(ms) == ms \div TickMs

\* the JavaScript value undefined, where a ref object is expected
Undefined == [cat |-> "undefined", index |-> -1, gen |-> -1]

---------------------------------------------------------------------------
(* Sequences *)

Range(s) == {s[i] : i \in 1..Len(s)}

IsPrefix(s, t) == Len(s) <= Len(t) /\ \A i \in 1..Len(s) : s[i] = t[i]

\* an indexOf that counts positions from 1
IndexOfOneBased(s, x) ==
    IF \E i \in 1..Len(s) : s[i] = x
    THEN CHOOSE i \in 1..Len(s) : s[i] = x /\ \A j \in 1..(i - 1) : s[j] # x
    ELSE -1

\* Array.prototype.indexOf, 0-based, -1 when absent
IndexOf(s, x) ==
    IF \E i \in 1..Len(s) : s[i] = x
    THEN (CHOOSE i \in 1..Len(s) : s[i] = x /\ \A j \in 1..(i - 1) : s[j] # x) - 1
    ELSE -1

\* the elements of s at the given positions, in that order
SubSeqAt(s, positions) == [k \in 1..Len(positions) |-> s[positions[k]]]

\* s[i] of a JavaScript array (0-based): undefined outside 0 .. length-1
ArrayAt(s, i) == IF i \in 0..(Len(s) - 1) THEN s[i + 1] ELSE Undefined

Without(s, i) == [k \in 1..(Len(s) - 1) |-> IF k < i THEN s[k] ELSE s[k + 1]]

---------------------------------------------------------------------------
(* Target registry *)

\* the ref object of <SkillNode index={i}>
SkillRef(i) == [cat |-> "skills", index |-> i, gen |-> 0]
\* the ref object of the g-th mounted instance of <TimelineItem index={i}>
TraceRef(i, g) == [cat |-> "trace", index |-> i, gen |-> g]

\* [].includes followed by push: registerTarget without the membership test
RegisterTargetNoCheck(reg, type, ref) ==
    [reg EXCEPT ![type] = Append(@, ref)]

\* registerTarget that puts a new handle first
RegisterTargetUnshift(reg, type, ref) ==
    IF ref \in Range(reg[type]) THEN reg
    ELSE [reg EXCEPT ![type] = <<ref>> \o @]

RegisterTarget(reg, type, ref) ==
    IF ref \in Range(reg[type]) THEN reg
    ELSE [reg EXCEPT ![type] = Append(@, ref)]

\* the mount effects of SkillNode 0 .. n-1, in tree order
RECURSIVE RegisterSkills(_, _, _)
RegisterSkills(reg, i, n) ==
    IF i >= n THEN reg
    ELSE RegisterSkills(RegisterTarget(reg, "skills", SkillRef(i)), i + 1, n)

\* the mount effects of TimelineItem 0 .. n-1 of list instance g
RECURSIVE RegisterTrace(_, _, _, _)
RegisterTrace(reg, i, n, g) ==
    IF i >= n THEN reg
    ELSE RegisterTrace(RegisterTarget(reg, "trace", TraceRef(i, g)), i + 1, n, g)

\* a page that renders the main content whatever bootComplete is
ContentMountedAlways == ~hasError

\* AppContent is mounted and renders the main content: {bootComplete && ...}
ContentMounted == bootComplete /\ ~hasError

\* ref.current is non-null: the element the handle refers to is in the DOM
IsMounted(ref) ==
    /\ ContentMounted
    /\ \/ ref.cat = "skills"
       \/ ref.cat = "trace" /\ viewMode = "log" /\ ref.gen = traceGen

---------------------------------------------------------------------------
(* JavaScript values and strings of the Terminal and the command palette *)

\* A string is the sequence of its pieces; a piece is one whitespace
\* character or a word without whitespace.  Text is the string itself.
RECURSIVE Text(_)
Text(s) == IF s = <<>> THEN "" ELSE Head(s) \o Text(Tail(s))

\* values a history line or the palette output can hold
Str(text) == [type |-> "string", value |-> text]
Null == [type |-> "null", value |-> ""]
JsUndefined == [type |-> "undefined", value |-> ""]
\* Object.prototype.constructor and Object.prototype.__proto__ of an
\* object literal
ObjectConstructor == [type |-> "function", value |-> "Object"]
ObjectPrototype == [type |-> "object", value |-> "Object.prototype"]
\* an Error object with the given message
JsError(message) == [type |-> "Error", value |-> message]
\* the exceptions a component of the page throws while rendering
Errors == {JsError("render failed")}

\* useState of Terminal: the two banner lines
InitialHistory ==
    << [type |-> "output", content |-> Str("MishatOS v2.0.0 [Senior Build]")],
       [type |-> "output", content |-> Str("Type \"help\" for instructions.")] >>

NoCall == [form |-> "none", input |-> <<>>]

\* the state of AppContent.theme, Terminal and VimCommandPalette on mount
CommandInit ==
    /\ theme = "default"
    /\ history = InitialHistory
    /\ terminalInput = <<>>
    /\ isOpen = FALSE
    /\ paletteInput = <<>>
    /\ output = Null
    /\ effects = <<>>
    /\ lastCall = NoCall

---------------------------------------------------------------------------
(* The page outside the signal system, before any effect has run *)

\* the layout of the deployed page: the skills grid above the timeline
DefaultLayout == [skills |-> 1000, trace |-> 2000]

LayoutInit == layout = DefaultLayout

\* window.innerWidth < 768
MobileWidth == 768

\* the first render of AppContent: no warning, BootSequence rendered with
\* no line, its effect not yet run
BootInit ==
    /\ showMobileWarning = FALSE
    /\ bootInst = 0
    /\ lines = <<>>
    /\ bootTimers = <<>>
    /\ bootEvents = <<>>
    /\ clock = 0

\* now - lastKeyTime < 500
GWindowMs == 500

NoEvent == [key |-> "", ignored |-> FALSE, scrolledTop |-> FALSE, interrupted |-> FALSE,
            from |-> 0]
NoG == [at |-> -1, scrolledTop |-> FALSE, interrupted |-> FALSE]

\* the mount effect of AppContent that adds the keydown listener:
\* let lastKeyTime = 0; let gCount = 0.  Date.now() counts from 1970, so it
\* is at least one window after 0.
KeyInit ==
    /\ now = Ticks(GWindowMs)
    /\ lastKeyTime = 0
    /\ gCount = 0
    /\ lastEvent = NoEvent
    /\ prevG = NoG

\* <CyberText text="MISHAT" />
TextProp == <<"M", "I", "S", "H", "A", "T">>

\* the first TextLen characters of the text prop
CyberTextProp == SubSeq(TextProp, 1, IF TextLen < Len(TextProp) THEN TextLen ELSE Len(TextProp))

\* useState(text); no scramble has started
CyberInit ==
    /\ displayText = CyberTextProp
    /\ scrambles = <<>>

\* AppContent, Terminal and the command palette as constructed
AppInit ==
    /\ nSkill \in {0, NumSkillNodes}
    /\ nTrace \in {0, NumTimelineItems}
    /\ bootComplete = FALSE
    /\ viewMode = "log"
    /\ traceGen = 0
    /\ hasError = FALSE
    /\ error = Null
    /\ scrollY = 0
    /\ targets = [skills |-> <<>>, trace |-> <<>>]
    /\ signals = <<>>
    /\ activeHits = {}
    /\ removals = <<>>
    /\ expiries = <<>>
    /\ packets = <<>>
    /\ hitTimers = <<>>
    /\ reRegistered = FALSE
    /\ CommandInit
    /\ submits = 0

\* the page on a desktop viewport
Init ==
    /\ AppInit
    /\ LayoutInit
    /\ innerWidth = MobileWidth
    /\ BootInit
    /\ KeyInit
    /\ CyberInit

\* BootSequence calls onComplete: the main content mounts, every SkillNode
\* and TimelineItem runs its mount effect
OnComplete ==
    /\ ~bootComplete /\ ~hasError
    /\ bootComplete' = TRUE
    /\ targets' = RegisterTrace(RegisterSkills(targets, 0, nSkill), 0, nTrace, traceGen)
    /\ UNCHANGED <<nSkill, nTrace, viewMode, traceGen, hasError, error, scrollY, signals,
                   activeHits, removals, expiries, packets, hitTimers, reRegistered>>

---------------------------------------------------------------------------
(* Signals: emitSignal, SignalPacket, hitTarget *)

\* the MethodologyCard elements: the bounding rectangle of the card at the
\* time of the mouseenter event and its colorHex prop
CardList ==
    << [rect |-> [left |-> 100, top |-> 100, width |-> 20, height |-> 20],
        colorHex |-> "#00f3ff"],
       [rect |-> [left |-> 40, top |-> 60, width |-> 0, height |-> 0],
        colorHex |-> "#d4af37"] >>

\* the cards the pointer enters
Cards == {CardList[i] : i \in 1..(IF NumCards < Len(CardList) THEN NumCards ELSE Len(CardList))}

\* the strings Math.random().toString(36).substr(2, 9) can return
Ids == 1..NumIds

\* Math.random() returns k / RandDenom for k in 0 .. RandDenom - 1: a grid
\* fine enough for every index of the longest collection to be drawn
RandDenom ==
    LET longest == NumTimelineItems * (MaxRemounts + 1)
    IN  IF NumSkillNodes > longest THEN NumSkillNodes ELSE longest

Rand == 0..(RandDenom - 1)

\* Math.floor(Math.random() * (length + 1))
RandomIndexOffByOne(k, length) == (k * (length + 1)) \div RandDenom

\* Math.floor(Math.random() * length)
RandomIndex(k, length) == (k * length) \div RandDenom

\* targets.skills[Math.floor(Math.random() * targets.skills.length)]
RandomTarget(s, k) == ArrayAt(s, RandomIndex(k, Len(s)))

\* a hit id made from the position after the handle's
HitIdNext(prefix, idx) == [prefix |-> prefix, idx |-> idx + 1]

\* the template literal `skill-${idx}` / `trace-${idx}`
HitId(prefix, idx) == [prefix |-> prefix, idx |-> idx]

\* the id a component compares with Hit State: `skill-${index}` in
\* SkillNode, `trace-${index}` in TimelineItem, index being its prop
ComponentId(ref) == HitId(IF ref.cat = "skills" THEN "skill" ELSE "trace", ref.index)

\* window.scrollX: the page does not scroll horizontally
ScrollX == 0

\* the centre of an element in document coordinates (page layout)
DocCenter(ref) ==
    IF ref.cat = "skills"
    THEN [x |-> 200 + 100 * ref.index, y |-> layout.skills]
    ELSE [x |-> 150, y |-> layout.trace + 200 * ref.index]

\* ref.current.getBoundingClientRect(): viewport coordinates
BoundingClientRect(ref) ==
    [left   |-> DocCenter(ref).x - ScrollX - 40,
     top    |-> DocCenter(ref).y - scrollY - 30,
     width  |-> 80,
     height |-> 60]

GetPos(ref) ==
    IF ref = Undefined \/ ~IsMounted(ref) THEN [x |-> 0, y |-> 0]
    ELSE LET rect == BoundingClientRect(ref)
         IN  [x |-> rect.left + rect.width \div 2 + ScrollX,
              y |-> rect.top + rect.height \div 2 + scrollY]

\* the three stages of the path of the i-th mounted packet, as rendered now
Start(i) == [x |-> signals[i].startX + ScrollX, y |-> signals[i].startY + scrollY]
Mid(i) == GetPos(packets[i].skillTarget)
End(i) == GetPos(packets[i].traceTarget)
SafeMid(i) ==
    IF Mid(i).y = 0 THEN [x |-> Start(i).x, y |-> Start(i).y + FallbackDy] ELSE Mid(i)
\* a renderer that keeps the resolved end point whatever it is
SafeEndNoFallback(i) == End(i)

SafeEnd(i) ==
    IF End(i).y = 0 THEN [x |-> SafeMid(i).x, y |-> SafeMid(i).y + FallbackDy] ELSE End(i)

\* A hit timer names the SignalPacket instance that scheduled it by the
\* instance's position in packets; 0 names an instance that has unmounted.
\* The packets at the positions kept stay mounted and move to positions
\* 1 .. Len(kept); the others unmount.
Unmount(timers, kept) ==
    [k \in 1..Len(timers) |->
        [timers[k] EXCEPT !.inst = IF @ \in Range(kept) THEN IndexOf(kept, @) + 1 ELSE 0]]

\* an effect cleanup that leaves the timeouts of the unmounted instances
KeepTimeouts(timers) == timers

\* the effect cleanup of the unmounted instances: clearTimeout(t1), clearTimeout(t2)
ClearTimeouts(timers) == SelectSeq(timers, LAMBDA t : t.inst # 0)

\* a SignalPacket whose second timeout hits the skills handle again
HitTimeoutsMidTwice(inst, skillTarget, traceTarget) ==
    << [inst |-> inst, stage |-> "mid", target |-> skillTarget, rem |-> Ticks(MidHitMs)],
       [inst |-> inst, stage |-> "mid", target |-> skillTarget, rem |-> Ticks(EndHitMs)] >>

\* the two timeouts of a SignalPacket with the delays exchanged
HitTimeoutsSwapped(inst, skillTarget, traceTarget) ==
    << [inst |-> inst, stage |-> "mid", target |-> skillTarget, rem |-> Ticks(EndHitMs)],
       [inst |-> inst, stage |-> "end", target |-> traceTarget, rem |-> Ticks(MidHitMs)] >>

\* the mount effect of a SignalPacket: t1 after 1000 ms, t2 after 2000 ms
HitTimeouts(inst, skillTarget, traceTarget) ==
    << [inst |-> inst, stage |-> "mid", target |-> skillTarget, rem |-> Ticks(MidHitMs)],
       [inst |-> inst, stage |-> "end", target |-> traceTarget, rem |-> Ticks(EndHitMs)] >>

\* an origin taken at the top left corner of the rectangle
RectTopLeft(rect) == [x |-> rect.left, y |-> rect.top]

\* rect.left + rect.width / 2, rect.top + rect.height / 2 (the rectangles of
\* the model have even widths and heights)
RectCenter(rect) ==
    [x |-> rect.left + rect.width \div 2, y |-> rect.top + rect.height \div 2]

\* a MethodologyCard's mouseenter handler calls emitSignal(rect, colorHex);
\* the new signal renders a SignalPacket, which picks its targets and
\* schedules its two hit timers
EmitSignal(card, id, k1, k2) ==
    /\ ContentMounted
    /\ Len(removals) < MaxSignals
    /\ LET rect == card.rect
           startX == RectCenter(rect).x
           startY == RectCenter(rect).y
           inst == Len(packets) + 1
           skillTarget == RandomTarget(targets.skills, k1)
           traceTarget == RandomTarget(targets.trace, k2)
       IN  /\ signals' = Append(signals, [id |-> id, startX |-> startX, startY |-> startY,
                                          color |-> card.colorHex, age |-> 0])
           /\ removals' = Append(removals, [id |-> id, rem |-> Ticks(LifetimeMs)])
           /\ packets' = Append(packets, [skillTarget |-> skillTarget,
                                          traceTarget |-> traceTarget])
           /\ hitTimers' = hitTimers \o HitTimeouts(inst, skillTarget, traceTarget)
    /\ UNCHANGED <<nSkill, nTrace, bootComplete, viewMode, traceGen, hasError, error, scrollY,
                   targets, activeHits, expiries, reRegistered>>

\* the 2500 ms timeout of emitSignal: prev.filter(s => s.id !== id); the
\* packets of the removed signals unmount.  A state update of an unmounted
\* AppContent has no effect.
FireRemoval ==
    /\ removals # <<>>
    /\ Head(removals).rem = 0
    /\ removals' = Tail(removals)
    /\ IF hasError
       THEN UNCHANGED <<signals, packets, hitTimers>>
       ELSE LET id == Head(removals).id
                kept == SelectSeq([i \in 1..Len(signals) |-> i],
                                  LAMBDA i : signals[i].id # id)
            IN  /\ signals' = SubSeqAt(signals, kept)
                /\ packets' = SubSeqAt(packets, kept)
                /\ hitTimers' = ClearTimeouts(Unmount(hitTimers, kept))
    /\ UNCHANGED <<nSkill, nTrace, bootComplete, viewMode, traceGen, hasError, error, scrollY,
                   targets, activeHits, expiries, reRegistered>>

\* a timeout of hitTarget that deletes nothing
ExpireHitNever(hits, id, pending) == hits

\* an expiry that keeps the id while a later hit of the same id is pending
ExpireHitCounted(hits, id, pending) ==
    IF \E i \in 1..Len(pending) : pending[i].hit = id THEN hits ELSE hits \ {id}

\* the 500 ms timeout of hitTarget: newSet.delete(id)
ExpireHit(hits, id, pending) == hits \ {id}

\* a hitTarget that schedules the expiry and does not add the id
AddHitNot(hits, id) == hits

\* hitTarget: newSet.add(id)
AddHit(hits, id) == hits \cup {id}

\* a timeout t1 / t2 of a SignalPacket: indexOf of the picked handle and,
\* when it is found, onHit = hitTarget of the id made from the index
FireHit(i) ==
    /\ i \in 1..Len(hitTimers)
    /\ hitTimers[i].rem = 0
    /\ hitTimers' = Without(hitTimers, i)
    /\ LET t == hitTimers[i]
           collection == IF t.stage = "mid" THEN targets.skills ELSE targets.trace
           idx == IndexOf(collection, t.target)
           id == HitId(IF t.stage = "mid" THEN "skill" ELSE "trace", idx)
       IN  IF t.target # Undefined /\ idx # -1
           THEN /\ activeHits' = IF hasError THEN activeHits ELSE AddHit(activeHits, id)
                /\ expiries' =
                       [k \in 1..Len(expiries) |->
                           IF expiries[k].hit = id
                           THEN [expiries[k] EXCEPT !.overlapped = TRUE]
                           ELSE expiries[k]]
                       \o << [hit |-> id, rem |-> Ticks(HitMs),
                              overlapped |-> \E k \in 1..Len(expiries) :
                                                 expiries[k].hit = id] >>
           ELSE UNCHANGED <<activeHits, expiries>>
    /\ UNCHANGED <<nSkill, nTrace, bootComplete, viewMode, traceGen, hasError, error, scrollY,
                   targets, signals, removals, packets, reRegistered>>

FireExpiry ==
    /\ expiries # <<>>
    /\ Head(expiries).rem = 0
    /\ expiries' = Tail(expiries)
    /\ activeHits' = IF hasError THEN activeHits
                     ELSE ExpireHit(activeHits, Head(expiries).hit, Tail(expiries))
    /\ UNCHANGED <<nSkill, nTrace, bootComplete, viewMode, traceGen, hasError, error, scrollY,
                   targets, signals, removals, packets, hitTimers, reRegistered>>

\* one tick of time passes; no timer is due
Tick ==
    /\ Len(removals) + Len(expiries) + Len(hitTimers) > 0
    /\ \A i \in 1..Len(removals) : removals[i].rem > 0
    /\ \A i \in 1..Len(expiries) : expiries[i].rem > 0
    /\ \A i \in 1..Len(hitTimers) : hitTimers[i].rem > 0
    /\ removals' = [i \in 1..Len(removals) |-> [removals[i] EXCEPT !.rem = @ - 1]]
    /\ expiries' = [i \in 1..Len(expiries) |-> [expiries[i] EXCEPT !.rem = @ - 1]]
    /\ hitTimers' = [i \in 1..Len(hitTimers) |-> [hitTimers[i] EXCEPT !.rem = @ - 1]]
    /\ signals' = [i \in 1..Len(signals) |-> [signals[i] EXCEPT !.age = @ + 1]]
    /\ UNCHANGED <<nSkill, nTrace, bootComplete, viewMode, traceGen, hasError, error, scrollY,
                   targets, activeHits, packets, reRegistered>>

---------------------------------------------------------------------------
(* View toggle, scrolling, teardown *)

\* the View Waveform / View Log button: the timeline list unmounts, or a new
\* list mounts and each new TimelineItem registers its new ref
ToggleView ==
    /\ ContentMounted
    /\ IF viewMode = "log"
       THEN /\ viewMode' = "wave"
            /\ UNCHANGED <<traceGen, targets>>
       ELSE /\ traceGen < MaxRemounts
            /\ viewMode' = "log"
            /\ traceGen' = traceGen + 1
            /\ targets' = RegisterTrace(targets, 0, nTrace, traceGen + 1)
    /\ UNCHANGED <<nSkill, nTrace, bootComplete, hasError, error, scrollY, signals, activeHits,
                   removals, expiries, packets, hitTimers, reRegistered>>

\* the j / k keys: window.scrollBy({ top: 300 }) / ({ top: -300 })
Scroll(dy) ==
    /\ ContentMounted
    /\ scrollY + dy \in 0..(MaxScrollSteps * ScrollStep)
    /\ scrollY' = scrollY + dy
    /\ UNCHANGED <<nSkill, nTrace, bootComplete, viewMode, traceGen, hasError, error, targets,
                   signals, activeHits, removals, expiries, packets, hitTimers,
                   reRegistered>>

\* a getDerivedStateFromError that sets hasError and drops the error
ThrowErrorUnrecorded(err) ==
    /\ ~hasError
    /\ hasError' = TRUE
    /\ error' = Null
    /\ bootComplete' = FALSE
    /\ viewMode' = "log"
    /\ traceGen' = 0
    /\ scrollY' = 0
    /\ targets' = [skills |-> <<>>, trace |-> <<>>]
    /\ signals' = <<>>
    /\ activeHits' = {}
    /\ packets' = <<>>
    /\ hitTimers' = ClearTimeouts(Unmount(hitTimers, <<>>))
    /\ reRegistered' = FALSE
    /\ UNCHANGED <<nSkill, nTrace, removals, expiries>>

\* a descendant throws while rendering: ErrorBoundary.getDerivedStateFromError.
\* AppContent unmounts: every mounted SignalPacket runs its effect cleanup,
\* and the state and the registry ref of AppContent are dropped.  The
\* timeouts of emitSignal and hitTarget stay scheduled.
ThrowError(err) ==
    /\ ~hasError
    /\ hasError' = TRUE
    /\ error' = err
    /\ bootComplete' = FALSE
    /\ viewMode' = "log"
    /\ traceGen' = 0
    /\ scrollY' = 0
    /\ targets' = [skills |-> <<>>, trace |-> <<>>]
    /\ signals' = <<>>
    /\ activeHits' = {}
    /\ packets' = <<>>
    /\ hitTimers' = ClearTimeouts(Unmount(hitTimers, <<>>))
    /\ reRegistered' = FALSE
    /\ UNCHANGED <<nSkill, nTrace, removals, expiries>>

\* REBOOT SYSTEM: window.location.reload()
Reload ==
    /\ hasError
    /\ bootComplete' = FALSE
    /\ viewMode' = "log"
    /\ traceGen' = 0
    /\ hasError' = FALSE
    /\ error' = Null
    /\ scrollY' = 0
    /\ targets' = [skills |-> <<>>, trace |-> <<>>]
    /\ signals' = <<>>
    /\ activeHits' = {}
    /\ removals' = <<>>
    /\ expiries' = <<>>
    /\ packets' = <<>>
    /\ hitTimers' = <<>>
    /\ reRegistered' = FALSE
    /\ UNCHANGED <<nSkill, nTrace>>

\* a mounted SkillNode or TimelineItem runs registerTarget with its own ref
\* once more
RegisterAgain(ref) ==
    /\ ContentMounted
    /\ ref \in Range(targets.skills) \cup Range(targets.trace)
    /\ IsMounted(ref)
    /\ targets' = RegisterTarget(targets, ref.cat, ref)
    /\ reRegistered' = TRUE
    /\ UNCHANGED <<nSkill, nTrace, bootComplete, viewMode, traceGen, hasError, error, scrollY,
                   signals, activeHits, removals, expiries, packets, hitTimers>>

---------------------------------------------------------------------------
(* Terminal and command palette: strings *)

\* the whitespace characters of the inputs
Whitespace == {" ", "\t"}

\* the lower-case spelling of the words of the inputs that have capitals
LowerCaseOf ==
    ("THEME" :> "theme") @@ ("Theme" :> "theme") @@ ("SILICON" :> "silicon")
        @@ ("BOGUS" :> "bogus")
        @@ ("Help" :> "help") @@ ("Clear" :> "clear") @@ ("CONSTRUCTOR" :> "constructor")
        @@ ("__PROTO__" :> "__proto__")

\* a toLowerCase that leaves every letter as it is
KeepCase(s) == s

\* String.prototype.toLowerCase
ToLowerCase(s) ==
    [i \in 1..Len(s) |-> IF s[i] \in DOMAIN LowerCaseOf THEN LowerCaseOf[s[i]] ELSE s[i]]

RECURSIVE TrimStart(_)
TrimStart(s) ==
    IF s # <<>> /\ Head(s) \in Whitespace THEN TrimStart(Tail(s)) ELSE s

RECURSIVE TrimEnd(_)
TrimEnd(s) ==
    IF s # <<>> /\ s[Len(s)] \in Whitespace THEN TrimEnd(SubSeq(s, 1, Len(s) - 1)) ELSE s

\* String.prototype.trim
Trim(s) == TrimEnd(TrimStart(s))

\* the tokens of s after the token cur that is being read
RECURSIVE SplitRest(_, _)
SplitRest(s, cur) ==
    IF s = <<>> THEN <<cur>>
    ELSE IF Head(s) \in Whitespace THEN <<cur>> \o SplitRest(TrimStart(s), <<>>)
    ELSE SplitRest(Tail(s), Append(cur, Head(s)))

\* String.prototype.split(/\s+/)
Split(s) == SplitRest(s, <<>>)

\* args[i]?.toLowerCase() of a 0-based array of tokens: the lower-cased
\* text of the token, or undefined
LowerAt(tokens, i) ==
    IF i < Len(tokens) THEN Str(Text(ToLowerCase(tokens[i + 1]))) ELSE JsUndefined

\* a lookup that sees own properties only
LookupOwn(own, key) == IF key \in DOMAIN own THEN own[key] ELSE JsUndefined

\* obj[key] of an object literal with the given own properties: an own
\* property, else a property inherited from Object.prototype, else undefined
Lookup(own, key) ==
    IF key \in DOMAIN own THEN own[key]
    ELSE IF key = "constructor" THEN ObjectConstructor
    ELSE IF key = "__proto__" THEN ObjectPrototype
    ELSE JsUndefined

Truthy(v) == v.type \notin {"undefined", "null"} /\ v # Str("")

Effect(op, arg) == [op |-> op, arg |-> arg]

---------------------------------------------------------------------------
(* Terminal *)

\* COMMANDS of Terminal
TerminalCommands ==
    ("help" :> Str("Available commands: help, whoami, skills, contact, clear, run_test, resume, theme [silicon|light|dark]"))
        @@ ("whoami" :> Str("Mishat | Senior Design Verification Engineer @ Marvell Technology. Obsessed with zero bugs."))
        @@ ("skills" :> Str("SystemVerilog, UVM, Python, Formal Verification, Verdi, DVE, C++"))
        @@ ("contact" :> Str("Email: mishath@mun.ca | LinkedIn: in/mishathassan"))
        @@ ("run_test" :> Str("Starting UVM Sequence...\nRunning test_soc_boot...\nWait for interrupt...\nTEST PASSED (Coverage: 100%)"))

\* setHistory(prev => [...prev, {input line}, {output line}])
Echo(hist, input, out) ==
    hist \o << [type |-> "input", content |-> Str(Text(input))],
               [type |-> "output", content |-> out] >>

\* a handleCommand whose clear branch leaves the clear line in the history
HandleCommandClearRecorded(hist, input) ==
    [history |-> <<[type |-> "input", content |-> Str(Text(input))]>>, effects |-> <<>>]

\* a theme branch that prints its line and never calls onThemeChange
TerminalThemeSilent(hist, input, arg1) ==
    [history |-> Echo(hist, input,
                      IF arg1 = Str("silicon")
                      THEN Str("SWITCHING TO RTL VIEW... GATE LEVEL PRIMITIVES EXPOSED.")
                      ELSE Str("Usage: theme [silicon | light | dark]")),
     effects |-> <<>>]

\* the theme branch of handleCommand
TerminalTheme(hist, input, arg1) ==
    IF arg1 = Str("silicon")
    THEN [history |-> Echo(hist, input, Str("SWITCHING TO RTL VIEW... GATE LEVEL PRIMITIVES EXPOSED.")),
          effects |-> <<Effect("onThemeChange", "silicon")>>]
    ELSE IF arg1 = Str("dark")
    THEN [history |-> Echo(hist, input, Str("REVERTING TO ABSTRACTION LAYER 0.")),
          effects |-> <<Effect("onThemeChange", "default")>>]
    ELSE IF arg1 = Str("light")
    THEN [history |-> Echo(hist, input, Str("ACTIVATING CLEAN ROOM PROTOCOLS... ILLUMINATION: 100%")),
          effects |-> <<Effect("onThemeChange", "light")>>]
    ELSE [history |-> Echo(hist, input, Str("Usage: theme [silicon | light | dark]")),
          effects |-> <<>>]

\* handleCommand of Terminal on a non-blank input: the new history and what
\* the handler does besides (input is reset by the caller)
HandleCommand(hist, input) ==
    LET args == Split(Trim(input))
        cmd == Text(ToLowerCase(args[1]))
        arg1 == LowerAt(args, 1)
        found == Lookup(TerminalCommands, cmd)
    IN  IF cmd = "clear" THEN [history |-> <<>>, effects |-> <<>>]
        ELSE IF cmd = "theme" THEN TerminalTheme(hist, input, arg1)
        ELSE IF cmd = "resume"
        THEN [history |-> Echo(hist, input, Str("Initiating download sequence for Mishat_Hassan_Resume.txt...")),
              effects |-> <<Effect("download", "Mishat_Hassan_Resume.txt")>>]
        ELSE [history |-> Echo(hist, input,
                               IF Truthy(found) THEN found
                               ELSE Str("bash: " \o cmd \o ": command not found")),
              effects |-> <<>>]

\* rendering {line.content}: React throws on an object that is not an element
RenderThrows(hist) == \E i \in 1..Len(hist) : hist[i].content.type = "object"

\* what a run of setTheme calls leaves in AppContent.theme
ThemeAfter(current, effs) ==
    LET calls == SelectSeq(effs, LAMBDA e : e.op = "onThemeChange")
    IN  IF calls = <<>> THEN current ELSE calls[Len(calls)].arg

\* the form submit of Terminal: the user has typed input and presses Enter.
\* A history line whose content is an object makes the next render of
\* Terminal throw, which tears the tree down (ErrorBoundary).
TerminalSubmit(input) ==
    /\ ContentMounted
    /\ submits < MaxSubmits
    /\ submits' = submits + 1
    /\ lastCall' = [form |-> "terminal", input |-> input]
    /\ UNCHANGED <<isOpen, paletteInput, output>>
    /\ IF Trim(input) = <<>>
       THEN /\ terminalInput' = input
            /\ effects' = <<>>
            /\ UNCHANGED <<theme, history, signalVars>>
       ELSE LET r == HandleCommand(history, input)
            IN  IF RenderThrows(r.history)
                THEN /\ ThrowError(JsError("Objects are not valid as a React child"))
                     /\ theme' = "default"
                     /\ history' = InitialHistory
                     /\ terminalInput' = <<>>
                     /\ effects' = r.effects \o <<Effect("throw", "render")>>
                ELSE /\ history' = r.history
                     /\ terminalInput' = <<>>
                     /\ theme' = ThemeAfter(theme, r.effects)
                     /\ effects' = r.effects
                     /\ UNCHANGED signalVars

---------------------------------------------------------------------------
(* Command palette *)

\* the keys of COMMANDS of VimCommandPalette
PaletteCommands ==
    {"help", "q", "quit", "wq", "x", "theme", "colorscheme", "colo", "top", "0", "$",
     "bottom", "contact", "skills", "resume", "verification", "trace"}

\* COMMANDS[cmd] of VimCommandPalette: the handler of the key
PaletteHandlers == [k \in PaletteCommands |-> [type |-> "function", value |-> k]]

Kept == [type |-> "kept", value |-> ""]

\* COMMANDS.theme
PaletteTheme(args) ==
    LET th == LowerAt(args, 0)
    IN  IF th = Str("silicon")
        THEN [effects |-> <<Effect("onThemeChange", "silicon")>>,
              output |-> Str("SWITCHING TO RTL VIEW...")]
        ELSE IF th = Str("light")
        THEN [effects |-> <<Effect("onThemeChange", "light")>>,
              output |-> Str("CLEAN ROOM MODE ACTIVATED")]
        ELSE IF th = Str("dark") \/ th = Str("default")
        THEN [effects |-> <<Effect("onThemeChange", "default")>>,
              output |-> Str("ABSTRACTION LAYER 0")]
        ELSE [effects |-> <<>>, output |-> Str("Usage: theme [dark|light|silicon]")]

\* handler(args, callbacks): what the handler does and what it passes to
\* setOutput (Kept when it does not call setOutput)
CallHandler(handler, args) ==
    LET k == handler.value
    IN  IF handler = ObjectConstructor THEN [effects |-> <<>>, output |-> Kept]
        ELSE IF handler.type # "function"
        THEN [effects |-> <<Effect("throw", "TypeError")>>, output |-> Kept]
        ELSE IF k = "help"
        THEN [effects |-> <<>>,
              output |-> Str("Commands: help, q, wq, theme [dark|light|silicon], colorscheme, top, $, contact, skills, resume")]
        ELSE IF k \in {"q", "quit", "wq", "x"}
        THEN [effects |-> <<Effect("onClose", "")>>, output |-> Kept]
        ELSE IF k \in {"theme", "colorscheme", "colo"} THEN PaletteTheme(args)
        ELSE IF k \in {"top", "0"}
        THEN [effects |-> <<Effect("scrollTo", "top"), Effect("onClose", "")>>, output |-> Kept]
        ELSE IF k \in {"$", "bottom"}
        THEN [effects |-> <<Effect("scrollTo", "bottom"), Effect("onClose", "")>>, output |-> Kept]
        ELSE IF k = "contact"
        THEN [effects |-> <<Effect("scrollIntoView", "terminal"), Effect("onClose", "")>>, output |-> Kept]
        ELSE IF k = "skills"
        THEN [effects |-> <<Effect("scrollIntoView", "coverage"), Effect("onClose", "")>>, output |-> Kept]
        ELSE IF k = "resume"
        THEN [effects |-> <<Effect("download", "Mishat_Hassan_Resume.pdf")>>,
              output |-> Str("Downloading resume...")]
        ELSE [effects |-> <<Effect("scrollIntoView", k), Effect("onClose", "")>>, output |-> Kept]

\* handleSubmit of VimCommandPalette on a non-blank input
HandleSubmit(input) ==
    LET parts == Split(Trim(input))
        cmd == Text(ToLowerCase(parts[1]))
        args == Tail(parts)
        handler == Lookup(PaletteHandlers, cmd)
    IN  IF Truthy(handler) THEN CallHandler(handler, args)
        ELSE [effects |-> <<>>, output |-> Str("E492: Not a command: " \o cmd)]

Did(effs, op) == \E i \in 1..Len(effs) : effs[i].op = op

\* the form submit of VimCommandPalette: the user has typed input and
\* presses Enter.  A handler that throws leaves the rest of handleSubmit
\* undone; an exception of an event handler does not reach ErrorBoundary.
PaletteSubmit(input) ==
    /\ ~hasError /\ isOpen
    /\ submits < MaxSubmits
    /\ submits' = submits + 1
    /\ lastCall' = [form |-> "palette", input |-> input]
    /\ UNCHANGED <<history, terminalInput, signalVars>>
    /\ IF Trim(input) = <<>>
       THEN /\ isOpen' = FALSE
            /\ paletteInput' = input
            /\ effects' = <<Effect("onClose", "")>>
            /\ UNCHANGED <<theme, output>>
       ELSE LET r == HandleSubmit(input)
            IN  /\ effects' = r.effects
                /\ theme' = ThemeAfter(theme, r.effects)
                /\ isOpen' = ~Did(r.effects, "onClose")
                /\ output' = IF r.output = Kept THEN output ELSE r.output
                /\ paletteInput' = IF Did(r.effects, "throw") THEN input ELSE <<>>

\* the parent opens the palette; the effect on isOpen resets input and output
OpenPalette ==
    /\ ~hasError /\ ~isOpen
    /\ isOpen' = TRUE
    /\ paletteInput' = <<>>
    /\ output' = Null
    /\ UNCHANGED <<theme, history, terminalInput, effects, lastCall, submits, signalVars>>

\* the Escape key while the palette is open: onClose
Escape ==
    /\ ~hasError /\ isOpen
    /\ isOpen' = FALSE
    /\ UNCHANGED <<theme, history, terminalInput, paletteInput, output, effects, lastCall,
                   submits, signalVars>>

\* the words typed as a command and as its argument
CommandWords ==
    {"theme", "THEME", "colo", "help", "Help", "clear", "Clear", "resume", "q", "top",
     "skills", "bogus", "BOGUS", "constructor", "__proto__", "__PROTO__"}
\* the commands typed with an argument
ArgumentCommandWords == {"theme", "THEME", "colo", "bogus", "Clear"}
ArgumentWords == {"silicon", "SILICON", "light", "dark", "default", "neon"}

\* the texts submitted: a command alone or with one argument, typed plainly
\* or with whitespace around and between the words; the empty text and a
\* blank text
Inputs ==
    {<<>>, <<" ">>}
        \cup {<<c>> : c \in CommandWords}
        \cup {<<"\t", c, " ">> : c \in CommandWords}
        \cup {<<c, " ", a>> : c \in ArgumentCommandWords, a \in ArgumentWords}
        \cup {<<" ", c, "\t", " ", a, " ">> : c \in ArgumentCommandWords, a \in ArgumentWords}

\* the page with its Terminal and an open-able command palette
NextCommand ==
    \/ /\ OnComplete
       /\ UNCHANGED <<commandVars, pageVars>>
    \/ /\ \E input \in Inputs : TerminalSubmit(input)
       /\ UNCHANGED pageVars
    \/ /\ \E input \in Inputs : PaletteSubmit(input)
       /\ UNCHANGED pageVars
    \/ /\ OpenPalette
       /\ UNCHANGED pageVars
    \/ /\ Escape
       /\ UNCHANGED pageVars
    \/ /\ Reload
       /\ theme' = "default"
       /\ history' = InitialHistory
       /\ terminalInput' = <<>>
       /\ isOpen' = FALSE
       /\ paletteInput' = <<>>
       /\ output' = Null
       /\ effects' = <<>>
       /\ lastCall' = NoCall
       /\ UNCHANGED <<submits, pageVars>>

\* the page as deployed: every SkillNode and TimelineItem present
InitCommand == Init /\ nSkill = NumSkillNodes /\ nTrace = NumTimelineItems

SpecCommand == InitCommand /\ [][NextCommand]_vars

---------------------------------------------------------------------------
Next ==
    \/ /\ OnComplete
       /\ UNCHANGED <<commandVars, pageVars>>
    \/ /\ \E card \in Cards, id \in Ids, k1 \in Rand, k2 \in Rand : EmitSignal(card, id, k1, k2)
       /\ UNCHANGED <<commandVars, pageVars>>
    \/ /\ FireRemoval
       /\ UNCHANGED <<commandVars, pageVars>>
    \/ /\ \E i \in 1..Len(hitTimers) : FireHit(i)
       /\ UNCHANGED <<commandVars, pageVars>>
    \/ /\ FireExpiry
       /\ UNCHANGED <<commandVars, pageVars>>
    \/ /\ Tick
       /\ UNCHANGED <<commandVars, pageVars>>
    \/ /\ ToggleView
       /\ UNCHANGED <<commandVars, pageVars>>
    \/ /\ \E err \in Errors : ThrowError(err)
       /\ UNCHANGED <<commandVars, pageVars>>
    \/ /\ Reload
       /\ UNCHANGED <<commandVars, pageVars>>

Spec == Init /\ [][Next]_vars

\* the page with its event loop: time passes and every timeout that is due
\* runs
SpecLive ==
    /\ Spec
    /\ WF_vars(Tick /\ UNCHANGED <<commandVars, pageVars>>)
    /\ WF_vars(FireRemoval /\ UNCHANGED <<commandVars, pageVars>>)
    /\ WF_vars((\E i \in 1..Len(hitTimers) : FireHit(i)) /\ UNCHANGED <<commandVars, pageVars>>)
    /\ WF_vars(FireExpiry /\ UNCHANGED <<commandVars, pageVars>>)

\* the page with registerTarget also called again by mounted components,
\* and signals emitted one at a time
NextApi ==
    \/ /\ OnComplete
       /\ UNCHANGED <<commandVars, pageVars>>
    \/ /\ removals = <<>>
       /\ \E card \in Cards, id \in Ids, k1 \in Rand, k2 \in Rand : EmitSignal(card, id, k1, k2)
       /\ UNCHANGED <<commandVars, pageVars>>
    \/ /\ FireRemoval
       /\ UNCHANGED <<commandVars, pageVars>>
    \/ /\ \E i \in 1..Len(hitTimers) : FireHit(i)
       /\ UNCHANGED <<commandVars, pageVars>>
    \/ /\ FireExpiry
       /\ UNCHANGED <<commandVars, pageVars>>
    \/ /\ Tick
       /\ UNCHANGED <<commandVars, pageVars>>
    \/ /\ ToggleView
       /\ UNCHANGED <<commandVars, pageVars>>
    \/ /\ \E err \in Errors : ThrowError(err)
       /\ UNCHANGED <<commandVars, pageVars>>
    \/ /\ Reload
       /\ UNCHANGED <<commandVars, pageVars>>
    \/ /\ \E ref \in Range(targets.skills) \cup Range(targets.trace) : RegisterAgain(ref)
       /\ UNCHANGED <<commandVars, pageVars>>

SpecApi == Init /\ [][NextApi]_vars

\* the rectangles getBoundingClientRect can return for a card, among them
\* {left: 100, top: 100, width: 20, height: 20} and zero-area ones
OriginRects ==
    [left : {40, 100}, top : {60, 100}, width : {0, 20}, height : {0, 20}]

OriginCards == {[rect |-> r, colorHex |-> "#00f3ff"] : r \in OriginRects}

\* the page with cards at any of the rectangles, scrolled with the j / k
\* keys, and signals emitted one at a time
NextOrigin ==
    \/ /\ OnComplete
       /\ UNCHANGED <<commandVars, pageVars>>
    \/ /\ removals = <<>>
       /\ \E card \in OriginCards, id \in Ids, k1 \in Rand, k2 \in Rand :
              EmitSignal(card, id, k1, k2)
       /\ UNCHANGED <<commandVars, pageVars>>
    \/ /\ FireRemoval
       /\ UNCHANGED <<commandVars, pageVars>>
    \/ /\ \E i \in 1..Len(hitTimers) : FireHit(i)
       /\ UNCHANGED <<commandVars, pageVars>>
    \/ /\ FireExpiry
       /\ UNCHANGED <<commandVars, pageVars>>
    \/ /\ Tick
       /\ UNCHANGED <<commandVars, pageVars>>
    \/ /\ Scroll(ScrollStep)
       /\ UNCHANGED <<commandVars, pageVars>>
    \/ /\ Scroll(-ScrollStep)
       /\ UNCHANGED <<commandVars, pageVars>>

SpecOrigin == Init /\ [][NextOrigin]_vars

\* the layouts getBoundingClientRect can report: the deployed one, and
\* ones in which the first element of a category is centred on document
\* y = 0
Layouts == [skills : {0, DefaultLayout.skills}, trace : {0, DefaultLayout.trace}]

InitLayout ==
    /\ AppInit /\ nSkill = NumSkillNodes /\ nTrace = NumTimelineItems
    /\ layout \in Layouts
    /\ innerWidth = MobileWidth
    /\ BootInit
    /\ KeyInit
    /\ CyberInit

\* the page in any of the layouts, scrolled with the j / k keys, its view
\* toggled, and signals emitted one at a time
NextLayout ==
    \/ /\ OnComplete
       /\ UNCHANGED <<commandVars, pageVars>>
    \/ /\ removals = <<>>
       /\ \E card \in Cards, id \in Ids, k1 \in Rand, k2 \in Rand : EmitSignal(card, id, k1, k2)
       /\ UNCHANGED <<commandVars, pageVars>>
    \/ /\ FireRemoval
       /\ UNCHANGED <<commandVars, pageVars>>
    \/ /\ \E i \in 1..Len(hitTimers) : FireHit(i)
       /\ UNCHANGED <<commandVars, pageVars>>
    \/ /\ FireExpiry
       /\ UNCHANGED <<commandVars, pageVars>>
    \/ /\ Tick
       /\ UNCHANGED <<commandVars, pageVars>>
    \/ /\ ToggleView
       /\ UNCHANGED <<commandVars, pageVars>>
    \/ /\ Scroll(ScrollStep)
       /\ UNCHANGED <<commandVars, pageVars>>
    \/ /\ Scroll(-ScrollStep)
       /\ UNCHANGED <<commandVars, pageVars>>

SpecLayout == InitLayout /\ [][NextLayout]_vars

---------------------------------------------------------------------------
(* BootSequence and the mobile warning *)

\* Math.random() * 300 + 100
MinDelayMs == 100
DelaySpanMs == 300
\* setTimeout(onComplete, 800)
CompleteMs == 800

\* one boot tick is the shortest delay between two lines
BootTicks(ms) == ms \div MinDelayMs

\* bootLog of BootSequence
BootLogLines ==
    << "BIOS_REV 4.09.23 // CHECKING PERIPHERALS...",
       "DETECTED: CPU [ARM Cortex-A78]",
       "DETECTED: GPU [Mali-G710]",
       "LOADING MEMORY MAP... 0xFFFF_FFFF OK",
       "INITIALIZING UVM PHASES...",
       " > build_phase... DONE",
       " > connect_phase... DONE",
       " > elaboration_phase... DONE",
       "STARTING SIMULATION...",
       "LOADING PORTFOLIO V2.0..." >>

\* the lines the model boots with: the first NumBootLines lines of bootLog
BootLog ==
    SubSeq(BootLogLines, 1,
           IF NumBootLines < Len(BootLogLines) THEN NumBootLines ELSE Len(BootLogLines))

\* Math.random() of the boot delays returns k / BootRandDenom, a grid on
\* which every delay is a whole number of boot ticks
BootRandDenom == DelaySpanMs \div MinDelayMs
BootRand == 0..(BootRandDenom - 1)

\* Math.random() * 300 + 100
RandomDelay(k) == (k * DelaySpanMs) \div BootRandDenom + MinDelayMs

\* a loop that sets delay for each line instead of adding to it
RECURSIVE DelaysNotAdded(_, _)
DelaysNotAdded(ks, delay) ==
    IF ks = <<>> THEN <<>>
    ELSE <<RandomDelay(Head(ks))>> \o DelaysNotAdded(Tail(ks), delay)

\* let delay = 0; delay += Math.random() * 300 + 100 for each line, in
\* order: the delay of every line for the draws ks
RECURSIVE Delays(_, _)
Delays(ks, delay) ==
    IF ks = <<>> THEN <<>>
    ELSE <<delay + RandomDelay(Head(ks))>> \o Delays(Tail(ks), delay + RandomDelay(Head(ks)))

\* the draws of one run of the effect: one per line
BootDraws == [1..Len(BootLog) -> BootRand]

\* the mount effect of BootSequence instance inst: one timeout per line
BootEffect(inst, ks) ==
    [i \in 1..Len(BootLog) |->
        [inst |-> inst, kind |-> "line", index |-> i - 1,
         rem |-> BootTicks(Delays(ks, 0)[i])]]

\* AppContent renders <BootSequence> and the instance is the one whose
\* effect ran last
BootSequenceMounted(inst) ==
    inst = bootInst /\ ~bootComplete /\ ~showMobileWarning /\ ~hasError

\* the passive effects of the first commit, children first: the effect of
\* BootSequence schedules its timeouts, then the effect of AppContent
\* checks the viewport width
MountEffects(ks) ==
    /\ bootInst = 0
    /\ ~hasError
    /\ bootInst' = 1
    /\ bootTimers' = BootEffect(1, ks)
    /\ showMobileWarning' = (innerWidth < MobileWidth)
    /\ UNCHANGED <<innerWidth, lines, bootEvents, clock>>
    /\ UNCHANGED signalVars

\* a line timeout: setLines(prev => [...prev, line]), which does nothing for
\* an instance that has unmounted; the timeout of the last line schedules
\* onComplete
LineTimeout(k) ==
    /\ k \in 1..Len(bootTimers)
    /\ bootTimers[k].kind = "line"
    /\ bootTimers[k].rem = 0
    /\ LET t == bootTimers[k]
       IN  /\ lines' = IF BootSequenceMounted(t.inst)
                       THEN Append(lines, BootLog[t.index + 1])
                       ELSE lines
           /\ bootTimers' =
                  Without(bootTimers, k)
                      \o (IF t.index = Len(BootLog) - 1
                          THEN << [inst |-> t.inst, kind |-> "complete", index |-> t.index,
                                   rem |-> BootTicks(CompleteMs)] >>
                          ELSE <<>>)
           /\ bootEvents' = Append(bootEvents, [inst |-> t.inst, kind |-> "line",
                                                index |-> t.index, at |-> clock])
    /\ UNCHANGED <<innerWidth, showMobileWarning, bootInst, clock>>
    /\ UNCHANGED signalVars

\* the onComplete timeout: () => setBootComplete(true).  The first call
\* mounts the main content and unmounts BootSequence.
CompleteTimeout(k) ==
    /\ k \in 1..Len(bootTimers)
    /\ bootTimers[k].kind = "complete"
    /\ bootTimers[k].rem = 0
    /\ bootTimers' = Without(bootTimers, k)
    /\ bootEvents' = Append(bootEvents, [inst |-> bootTimers[k].inst, kind |-> "complete",
                                         index |-> bootTimers[k].index, at |-> clock])
    /\ IF bootComplete \/ hasError
       THEN UNCHANGED <<signalVars, lines>>
       ELSE OnComplete /\ lines' = <<>>
    /\ UNCHANGED <<innerWidth, showMobileWarning, bootInst, clock>>

\* PROCEED WITH CAUTION: setShowMobileWarning(false).  While bootComplete is
\* false, <BootSequence> is rendered again: a new instance mounts and its
\* effect schedules its own timeouts.
Proceed(ks) ==
    /\ showMobileWarning
    /\ showMobileWarning' = FALSE
    /\ IF bootComplete
       THEN UNCHANGED <<bootInst, bootTimers, lines>>
       ELSE /\ bootInst' = bootInst + 1
            /\ bootTimers' = bootTimers \o BootEffect(bootInst + 1, ks)
            /\ lines' = <<>>
    /\ UNCHANGED <<innerWidth, bootEvents, clock>>
    /\ UNCHANGED signalVars

\* one boot tick passes; no boot timeout is due
BootTick ==
    /\ bootTimers # <<>>
    /\ \A k \in 1..Len(bootTimers) : bootTimers[k].rem > 0
    /\ bootTimers' = [k \in 1..Len(bootTimers) |-> [bootTimers[k] EXCEPT !.rem = @ - 1]]
    /\ clock' = clock + 1
    /\ UNCHANGED <<innerWidth, showMobileWarning, bootInst, lines, bootEvents>>
    /\ UNCHANGED signalVars

\* what the boot actions leave alone
bootRest == <<commandVars, layout, keyVars, cyberVars>>

\* the page from its first commit to the mounted main content
NextBoot ==
    \/ /\ \E ks \in BootDraws : MountEffects(ks)
       /\ UNCHANGED bootRest
    \/ /\ \E k \in 1..Len(bootTimers) : LineTimeout(k)
       /\ UNCHANGED bootRest
    \/ /\ \E k \in 1..Len(bootTimers) : CompleteTimeout(k)
       /\ UNCHANGED bootRest
    \/ /\ \E ks \in BootDraws : Proceed(ks)
       /\ UNCHANGED bootRest
    \/ /\ BootTick
       /\ UNCHANGED bootRest

\* the deployed page on a viewport just below or at the mobile width
InitBoot ==
    /\ AppInit /\ nSkill = NumSkillNodes /\ nTrace = NumTimelineItems
    /\ LayoutInit
    /\ innerWidth \in {MobileWidth - 1, MobileWidth}
    /\ BootInit
    /\ KeyInit
    /\ CyberInit

\* the event loop runs the effects and every timeout that is due, and time
\* passes
SpecBoot ==
    /\ InitBoot /\ [][NextBoot]_vars
    /\ WF_vars(BootTick /\ UNCHANGED bootRest)
    /\ WF_vars((\E k \in 1..Len(bootTimers) : LineTimeout(k)) /\ UNCHANGED bootRest)
    /\ WF_vars((\E k \in 1..Len(bootTimers) : CompleteTimeout(k)) /\ UNCHANGED bootRest)
    /\ WF_vars((\E ks \in BootDraws : MountEffects(ks)) /\ UNCHANGED bootRest)

---------------------------------------------------------------------------
(* CyberText *)

\* iterations += 1 / 8: the model counts iterations in eighths
Eighths == 8

\* const chars = "X01"
Chars == {"X", "0", "1"}

\* the characters Math.random() picks for the positions of the text
CharPicks == [1..Len(CyberTextProp) -> Chars]

\* an updater that reveals one character less: index < iterations - 1
ScrambledOneLess(prev, seen, picks) ==
    [i \in 1..Len(prev) |->
        IF (i - 1) * Eighths < seen - Eighths THEN CyberTextProp[i] ELSE picks[i]]

\* the updater of setDisplayText, run while iterations is seen / 8:
\* prev.split("").map((letter, index) => index < iterations ? text[index]
\* : chars[random]).join("")
Scrambled(prev, seen, picks) ==
    [i \in 1..Len(prev) |->
        IF (i - 1) * Eighths < seen THEN CyberTextProp[i] ELSE picks[i]]

\* scramble(): let iterations = 0; setInterval(..., 50)
StartScramble ==
    scrambles' = Append(scrambles,
                        [iterations |-> 0, running |-> TRUE,
                         overlapped |-> \E i \in 1..Len(scrambles) : scrambles[i].running])

\* useEffect(() => { scramble(); }, [])
MountScramble ==
    /\ scrambles = <<>>
    /\ StartScramble
    /\ UNCHANGED displayText

\* onMouseEnter={scramble}
MouseEnter ==
    /\ scrambles # <<>>
    /\ Len(scrambles) < MaxScrambles
    /\ StartScramble
    /\ UNCHANGED displayText

\* one run of the interval callback of the i-th scramble.  React runs the
\* updater either inside setDisplayText or in the next render, after
\* iterations += 1 / 8 (late).
IntervalCallback(i, picks, late) ==
    /\ i \in 1..Len(scrambles)
    /\ scrambles[i].running
    /\ LET iterations == scrambles[i].iterations
           seen == IF late THEN iterations + 1 ELSE iterations
       IN  /\ displayText' = Scrambled(displayText, seen, picks)
           /\ scrambles' =
                  [scrambles EXCEPT
                      ![i].running = ~(iterations >= Eighths * Len(CyberTextProp)),
                      ![i].iterations = iterations + 1]

\* what the CyberText actions leave alone
cyberRest == <<signalVars, commandVars, layout, bootVars, keyVars>>

NextCyber ==
    \/ /\ MountScramble
       /\ UNCHANGED cyberRest
    \/ /\ MouseEnter
       /\ UNCHANGED cyberRest
    \/ /\ \E i \in 1..Len(scrambles), picks \in CharPicks, late \in BOOLEAN :
              IntervalCallback(i, picks, late)
       /\ UNCHANGED cyberRest

\* a mounted CyberText: setInterval runs the callback of every interval
\* that has not been cleared
SpecCyber ==
    /\ InitCommand /\ [][NextCyber]_vars
    /\ \A i \in 1..MaxScrambles :
           WF_vars(/\ \E picks \in CharPicks, late \in BOOLEAN : IntervalCallback(i, picks, late)
                   /\ UNCHANGED cyberRest)

---------------------------------------------------------------------------
(* Vim keys of AppContent *)

\* the keydown events: e.key (x stands for every key without a binding),
\* e.target.tagName and the modifier held
Keys == {"g", "G", "j", "k", "x"}
KeyEvents ==
    [key : Keys, tagName : {"BODY", "INPUT", "TEXTAREA"},
     modifier : {"none", "meta", "ctrl", "alt"}]

\* the two early returns of handleKeyDown
Ignored(e) == e.tagName \in {"INPUT", "TEXTAREA"} \/ e.modifier # "none"

\* a window that includes its end: now - lastKeyTime <= 500
WithinWindowInclusive(t, last) == (t - last) * TickMs <= GWindowMs

\* now - lastKeyTime < 500, both in ticks
WithinWindow(t, last) == (t - last) * TickMs < GWindowMs

\* the largest scroll offset: the page scrolls once the main content is there
ScrollMax == IF ContentMounted THEN MaxScrollSteps * ScrollStep ELSE 0

\* window.scrollBy / window.scrollTo keep the offset inside the document
ScrollTo(y) == IF y < 0 THEN 0 ELSE IF y > ScrollMax THEN ScrollMax ELSE y

\* handleKeyDown(e)
HandleKeyDown(e) ==
    /\ ~hasError
    /\ IF Ignored(e)
       THEN /\ UNCHANGED <<scrollY, lastKeyTime, gCount>>
            /\ lastEvent' = [key |-> e.key, ignored |-> TRUE, scrolledTop |-> FALSE,
                             interrupted |-> FALSE, from |-> scrollY]
            /\ prevG' = [prevG EXCEPT !.interrupted = TRUE]
       ELSE IF e.key = "g"
       THEN LET count == IF WithinWindow(now, lastKeyTime) THEN gCount + 1 ELSE 1
            IN  /\ lastKeyTime' = now
                /\ gCount' = IF count = 2 THEN 0 ELSE count
                /\ scrollY' = IF count = 2 THEN ScrollTo(0) ELSE scrollY
                /\ lastEvent' = [key |-> e.key, ignored |-> FALSE, scrolledTop |-> count = 2,
                                 interrupted |-> prevG.interrupted, from |-> scrollY]
                /\ prevG' = [at |-> now, scrolledTop |-> count = 2, interrupted |-> FALSE]
       ELSE /\ scrollY' = CASE e.key = "j" -> ScrollTo(scrollY + ScrollStep)
                            [] e.key = "k" -> ScrollTo(scrollY - ScrollStep)
                            [] e.key = "G" -> ScrollTo(ScrollMax)
                            [] OTHER -> scrollY
            /\ UNCHANGED <<lastKeyTime, gCount>>
            /\ lastEvent' = [key |-> e.key, ignored |-> FALSE, scrolledTop |-> FALSE,
                             interrupted |-> FALSE, from |-> scrollY]
            /\ prevG' = [prevG EXCEPT !.interrupted = TRUE]
    /\ UNCHANGED now
    /\ UNCHANGED <<nSkill, nTrace, bootComplete, viewMode, traceGen, hasError, error, targets,
                   signals, activeHits, removals, expiries, packets, hitTimers,
                   reRegistered>>

\* a tick of Date.now() passes
KeyTick ==
    /\ now < Ticks(GWindowMs) + MaxKeyTicks
    /\ now' = now + 1
    /\ UNCHANGED <<lastKeyTime, gCount, lastEvent, prevG>>
    /\ UNCHANGED signalVars

\* what the key actions leave alone
keyRest == <<commandVars, layout, bootVars, cyberVars>>

\* the page under key presses, before and after the main content mounts
NextKeys ==
    \/ /\ OnComplete
       /\ UNCHANGED <<commandVars, pageVars>>
    \/ /\ \E e \in KeyEvents : HandleKeyDown(e)
       /\ UNCHANGED keyRest
    \/ /\ KeyTick
       /\ UNCHANGED keyRest

SpecKeys == InitCommand /\ [][NextKeys]_vars

---------------------------------------------------------------------------
(* Properties *)

Lifetime == Ticks(LifetimeMs)

\* the signals that have not reached the end of their lifetime
Young(s) == SelectSeq(s, LAMBDA x : x.age < Lifetime)

\* a step of the mounted AppContent that takes signals out of the collection
RemovalStep == ~hasError /\ ~hasError' /\ Len(signals') < Len(signals)

\* a 500 ms timeout of hitTarget runs
ExpiryStep == expiries # <<>> /\ expiries' = Tail(expiries)

\* a hitTarget call is made
HitStep == Len(expiries') = Len(expiries) + 1

\* an emitSignal call is made and its SignalPacket mounts
EmitStep == Len(packets') = Len(packets) + 1

MidPending(i) == \E k \in 1..Len(hitTimers) : hitTimers[k].inst = i /\ hitTimers[k].stage = "mid"
EndPending(i) == \E k \in 1..Len(hitTimers) : hitTimers[k].inst = i /\ hitTimers[k].stage = "end"

\* C1: every signal in the collection has its removal timeout pending and
\* is no older than 2.5 time-units, and a signal leaves the collection only
\* when 2.5 time-units have passed since its emission.
C1_RemovedAtLifetime ==
    /\ [](~hasError =>
            \A i \in 1..Len(signals) :
                /\ signals[i].age <= Lifetime
                /\ \E k \in 1..Len(removals) :
                       /\ removals[k].id = signals[i].id
                       /\ removals[k].rem = Lifetime - signals[i].age)
    /\ [][RemovalStep => Young(signals') = Young(signals)]_vars

\* C2: the id of a hitTarget call no other call for the same id overlaps is
\* in Hit State while the call's expiry timeout is pending, and is absent
\* from Hit State when that timeout has run.
C2_HitPresentThenAbsent ==
    /\ [](~hasError =>
            \A k \in 1..Len(expiries) :
                ~expiries[k].overlapped => expiries[k].hit \in activeHits)
    /\ [][(ExpiryStep /\ ~hasError /\ ~Head(expiries).overlapped)
              => Head(expiries).hit \notin activeHits']_vars

\* C2 witness: the skills hit of a packet was raised, no call overlapped
\* it, its expiry has run and the id left Hit State.
C2_Witness ==
    /\ ~hasError /\ expiries = <<>> /\ activeHits = {}
    /\ \E i \in 1..Len(packets) :
           /\ packets[i].skillTarget # Undefined
           /\ ~MidPending(i)
           /\ signals[i].age >= Ticks(MidHitMs) + Ticks(HitMs)
           /\ Len(signals) = 1

\* C3: Hit State is a plain set with one expiry timeout per hitTarget call:
\* every call adds its id and schedules its own 500 ms timeout, and every
\* timeout deletes its id whatever other timeouts for that id are pending,
\* deleting nothing when the id is already absent.
C3_IndependentExpiry ==
    /\ [][(HitStep /\ ~hasError) =>
             LET e == expiries'[Len(expiries')]
             IN  e.rem = Ticks(HitMs) /\ activeHits' = activeHits \cup {e.hit}]_vars
    /\ [][(ExpiryStep /\ ~hasError) =>
             activeHits' = activeHits \ {Head(expiries).hit}]_vars

\* C3 witness: after two overlapping hits of one id, the id is absent from
\* Hit State while the expiry of the second hit is still to run.
C3_Witness ==
    /\ ~hasError
    /\ \E k \in 1..Len(expiries) :
           /\ expiries[k].rem > 0
           /\ expiries[k].overlapped
           /\ expiries[k].hit \notin activeHits

\* C4: while the 1.0 timeout of a mounted SignalPacket is pending, its 2.0
\* timeout is pending too and is due strictly later: no instance raises
\* its trace hit before its skills hit.
C4_MidBeforeEnd ==
    \A i \in 1..Len(packets) :
        \A k \in 1..Len(hitTimers) :
            (hitTimers[k].inst = i /\ hitTimers[k].stage = "mid") =>
                \E m \in 1..Len(hitTimers) :
                    /\ hitTimers[m].inst = i
                    /\ hitTimers[m].stage = "end"
                    /\ hitTimers[m].rem > hitTimers[k].rem

\* C4 witness: one instance has raised both of its hits while another
\* instance has not yet raised its skills hit.
C4_Witness ==
    \E i, j \in 1..Len(packets) :
        /\ packets[i].skillTarget # Undefined
        /\ packets[i].traceTarget # Undefined
        /\ ~MidPending(i) /\ ~EndPending(i)
        /\ packets[j].skillTarget # Undefined
        /\ MidPending(j)

\* C5: once AppContent has been torn down, no timeout of emitSignal or of
\* hitTarget is pending.
C5_TeardownCancelsTimers ==
    hasError => (removals = <<>> /\ expiries = <<>>)

\* C6: every pending 1.0 / 2.0 timeout belongs to a mounted SignalPacket
\* instance: the timeouts of an instance that has unmounted are cleared, so
\* no hit is raised for it.
C6_HitTimersOfMountedOnly ==
    \A k \in 1..Len(hitTimers) : hitTimers[k].inst \in 1..Len(packets)

\* C6 witness: the tree was torn down less than 1.0 after an emission, so
\* the instance unmounted with both timeouts unfired, and no hit timeout
\* is left.
C6_Witness ==
    /\ hasError
    /\ hitTimers = <<>>
    /\ \E k \in 1..Len(removals) : removals[k].rem > Lifetime - Ticks(MidHitMs)

\* every ref object a SkillNode or a TimelineItem of the page can hold
AllRefs ==
    {SkillRef(i) : i \in 0..(NumSkillNodes - 1)}
        \cup {TraceRef(i, g) : i \in 0..(NumTimelineItems - 1), g \in 0..(MaxRemounts + 1)}

OtherCategory(cat) == IF cat = "skills" THEN "trace" ELSE "skills"

\* C7: registerTarget of a handle that is already in the category's
\* collection leaves the registry as it is, and no handle occurs twice in
\* one category.
C7_RegisterIdempotent ==
    /\ [](\A cat \in {"skills", "trace"} :
            /\ \A i, j \in 1..Len(targets[cat]) :
                   i # j => targets[cat][i] # targets[cat][j]
            /\ \A ref \in Range(targets[cat]) :
                   RegisterTarget(targets, cat, ref) = targets)
    /\ [][(reRegistered' /\ ~reRegistered) => targets' = targets]_vars

\* C7 witness: a mounted component has registered its handle a second
\* time, in a registry that holds skills handles and the trace handles of
\* two timeline lists.
C7_Witness ==
    /\ reRegistered
    /\ nSkill > 0 /\ nTrace > 0
    /\ Len(targets.skills) = nSkill
    /\ Len(targets.trace) = 2 * nTrace

\* C8: while AppContent is mounted, every step leaves each category's
\* collection a prefix of its next value, and registerTarget of any handle
\* extends its category at the end and leaves the other category as it is.
C8_AppendOnly ==
    /\ [][(hasError' = hasError) =>
             /\ IsPrefix(targets.skills, targets'.skills)
             /\ IsPrefix(targets.trace, targets'.trace)]_vars
    /\ [](\A ref \in AllRefs :
            LET after == RegisterTarget(targets, ref.cat, ref)
            IN  /\ IsPrefix(targets[ref.cat], after[ref.cat])
                /\ after[OtherCategory(ref.cat)] = targets[OtherCategory(ref.cat)])

\* C8 witness: the trace collection has grown by a second timeline list
\* behind the handles of the first one, with a signal in flight and a
\* highlight active.
C8_Witness ==
    /\ ~hasError /\ nSkill > 0 /\ nTrace > 0
    /\ Len(targets.trace) = 2 * nTrace
    /\ \A i \in 1..nTrace : targets.trace[i] = TraceRef(i - 1, 0)
    /\ \A i \in 1..nTrace : targets.trace[nTrace + i] = TraceRef(i - 1, 1)
    /\ signals # <<>>
    /\ activeHits # {}

\* C9: a SignalPacket instantiated with both categories non-empty picks a
\* handle of the skills collection and a handle of the trace collection;
\* with 3 skills handles and 2 trace handles the pairs that can be picked
\* are exactly the 6 pairs of registered handles.
C9_PicksAreRegistered ==
    /\ [][(EmitStep /\ targets.skills # <<>> /\ targets.trace # <<>>) =>
             LET p == packets'[Len(packets')]
             IN  /\ p.skillTarget \in Range(targets.skills)
                 /\ p.traceTarget \in Range(targets.trace)]_vars
    /\ []((Len(targets.skills) = 3 /\ Len(targets.trace) = 2) =>
            LET pairs == {<<RandomTarget(targets.skills, k1), RandomTarget(targets.trace, k2)>> :
                             k1 \in Rand, k2 \in Rand}
            IN  /\ pairs = Range(targets.skills) \X Range(targets.trace)
                /\ Cardinality(pairs) = 6)

\* C9 witness: with 3 skills handles and 2 trace handles registered, a
\* mounted packet has picked the last handle of each collection.
C9_Witness ==
    /\ Len(targets.skills) = 3 /\ Len(targets.trace) = 2
    /\ \E i \in 1..Len(packets) :
           /\ packets[i].skillTarget = targets.skills[3]
           /\ packets[i].traceTarget = targets.trace[2]

\* C10: with an empty trace category the endpoint stage of every packet is
\* the point 800 below its (possibly substituted) midpoint stage, and a
\* signal leaves the collection only 2.5 time-units after its emission.
C10_EmptyTraceFallback ==
    /\ [](targets.trace = <<>> =>
            \A i \in 1..Len(packets) :
                SafeEnd(i) = [x |-> SafeMid(i).x, y |-> SafeMid(i).y + FallbackDy])
    /\ [][(RemovalStep /\ targets.trace = <<>>) => Young(signals') = Young(signals)]_vars

\* a registered handle whose element is not in the DOM
Stale(ref) == ref # Undefined /\ ~IsMounted(ref)

Below(p, q) == p.x = q.x /\ p.y = q.y + FallbackDy /\ p.y > q.y

\* C11: a packet whose picked handle is stale resolves it to the degenerate
\* point and renders the stage 800 below the previous stage, so each of its
\* three stages is a point and each substituted stage is strictly below
\* its predecessor.
C11_StaleHandleFallback ==
    \A i \in 1..Len(packets) :
        /\ Stale(packets[i].skillTarget) =>
               Mid(i) = [x |-> 0, y |-> 0] /\ Below(SafeMid(i), Start(i))
        /\ Stale(packets[i].traceTarget) =>
               End(i) = [x |-> 0, y |-> 0] /\ Below(SafeEnd(i), SafeMid(i))
        /\ Mid(i).y = 0 => Below(SafeMid(i), Start(i))
        /\ End(i).y = 0 => Below(SafeEnd(i), SafeMid(i))
        /\ {SafeMid(i).x, SafeMid(i).y, SafeEnd(i).x, SafeEnd(i).y} \subseteq Nat

\* C11 witness: a packet flies to a mounted skills handle and on to a trace
\* handle of the timeline list that was unmounted by the waveform view.
C11_Witness ==
    /\ viewMode = "wave"
    /\ \E i \in 1..Len(packets) :
           /\ packets[i].skillTarget # Undefined
           /\ Stale(packets[i].traceTarget)
           /\ SafeMid(i) = DocCenter(packets[i].skillTarget)
           /\ SafeEnd(i).y = DocCenter(packets[i].skillTarget).y + FallbackDy

\* the handle the instance of a hit timer picked for the timer's stage
PickOf(t) ==
    IF t.stage = "mid" THEN packets[t.inst].skillTarget ELSE packets[t.inst].traceTarget

CollectionOf(stage, reg) == IF stage = "mid" THEN reg.skills ELSE reg.trace

\* C12: the picks of a mounted SignalPacket never change: every step that
\* removes no signal leaves the picks of every mounted instance as they
\* are, whatever it does to the signals, Hit State or the registry; each
\* pending 1.0 / 2.0 timeout carries the pick of its own instance; and a
\* hit is raised with the registry position of that pick.
C12_PicksAreStable ==
    /\ [][(~hasError' /\ Len(signals') >= Len(signals)) =>
             \A i \in 1..Len(packets) : packets'[i] = packets[i]]_vars
    /\ [][(~hasError' /\ Len(signals') < Len(signals)) =>
             \A i \in 1..Len(packets') : \E j \in i..Len(packets) : packets'[i] = packets[j]]_vars
    /\ [](\A k \in 1..Len(hitTimers) : hitTimers[k].target = PickOf(hitTimers[k]))
    /\ [][HitStep =>
             \E k \in 1..Len(hitTimers) :
                 /\ hitTimers' = Without(hitTimers, k)
                 /\ hitTimers[k].rem = 0
                 /\ ArrayAt(CollectionOf(hitTimers[k].stage, targets),
                            expiries'[Len(expiries')].hit.idx) = PickOf(hitTimers[k])]_vars

\* C12 witness: a packet picked a trace handle of the first timeline list,
\* the registry then grew by a second list, and the 2.0 hit was raised
\* with the position of the handle picked first.
C12_Witness ==
    /\ ~hasError /\ traceGen = 1 /\ viewMode = "log"
    /\ \E i \in 1..Len(packets) :
           /\ packets[i].traceTarget # Undefined
           /\ packets[i].traceTarget.gen = 0
           /\ ~EndPending(i)
           /\ \E k \in 1..Len(expiries) :
                  expiries[k].hit = HitId("trace", packets[i].traceTarget.index)

\* the registry category a hit id prefix stands for
CategoryOf(prefix) == IF prefix = "skill" THEN "skills" ELSE prefix

\* C13 as stated: every id in Hit State is <category>-<index> with the
\* category name skills or trace and the index a position of that
\* category's collection.
C13_HitIdIsCategoryIndex ==
    \A id \in activeHits :
        /\ id.prefix \in {"skills", "trace"}
        /\ id.idx \in 0..(Len(targets[id.prefix]) - 1)

\* C13 amended: every id in Hit State is skill-<index> or trace-<index>,
\* the index being a position of the skills / trace collection.
C13_HitIdIsPrefixIndex ==
    \A id \in activeHits :
        /\ id.prefix \in {"skill", "trace"}
        /\ id.idx \in 0..(Len(targets[CategoryOf(id.prefix)]) - 1)

\* C13 witness: Hit State holds the id of the last skills handle and the
\* id of the last trace handle.
C13_Witness ==
    /\ Len(targets.skills) > 1 /\ Len(targets.trace) > 1
    /\ HitId("skill", Len(targets.skills) - 1) \in activeHits
    /\ HitId("trace", Len(targets.trace) - 1) \in activeHits

\* C14: the ids of the signals in the collection are pairwise distinct, and
\* a removal timeout takes exactly its own signal out of the collection,
\* leaving the other signals in their order.
C14_FreshIds ==
    /\ [](\A i, j \in 1..Len(signals) : i # j => signals[i].id # signals[j].id)
    /\ [][RemovalStep =>
             \E i \in 1..Len(signals) :
                 /\ signals[i].id = Head(removals).id
                 /\ signals' = Without(signals, i)]_vars

\* C15: emitSignal stores the centre of the origin rectangle, whatever the
\* rectangle and the scroll position: (110, 110) for {100, 100, 20, 20} and
\* (left, top) for a zero-area rectangle; scrolling leaves the stored
\* origin as it is.
C15_OriginIsRectCenter ==
    /\ [][\A card \in OriginCards, id \in Ids, k1 \in Rand, k2 \in Rand :
             EmitSignal(card, id, k1, k2) =>
                 LET s == signals'[Len(signals')]
                     r == card.rect
                 IN  /\ 2 * s.startX = 2 * r.left + r.width
                     /\ 2 * s.startY = 2 * r.top + r.height
                     /\ r = [left |-> 100, top |-> 100, width |-> 20, height |-> 20] =>
                            (s.startX = 110 /\ s.startY = 110)
                     /\ (r.width = 0 /\ r.height = 0) =>
                            (s.startX = r.left /\ s.startY = r.top)]_vars
    /\ [][scrollY' # scrollY => signals' = signals]_vars

\* C15 witness: a signal emitted from {100, 100, 20, 20} on the scrolled
\* page has the stored origin (110, 110) and starts its path at (110, 410).
C15_Witness ==
    /\ scrollY = ScrollStep
    /\ \E i \in 1..Len(signals) :
           /\ signals[i].startX = 110 /\ signals[i].startY = 110
           /\ signals[i].age = 0
           /\ Start(i) = [x |-> 110, y |-> 110 + ScrollStep]

\* a form submit of the Terminal or of the command palette
SubmitStep == submits' = submits + 1

TerminalCall(input) == [form |-> "terminal", input |-> input]
PaletteCall(input) == [form |-> "palette", input |-> input]

\* C16: submitting `theme silicon` to the Terminal calls onThemeChange
\* once, with silicon, and appends the input line and the line
\* SWITCHING TO RTL VIEW... GATE LEVEL PRIMITIVES EXPOSED. to the history.
C16_ThemeSilicon ==
    [][(SubmitStep /\ lastCall' = TerminalCall(<<"theme", " ", "silicon">>)) =>
          /\ effects' = <<Effect("onThemeChange", "silicon")>>
          /\ theme' = "silicon"
          /\ history' = history \o
                 << [type |-> "input", content |-> Str("theme silicon")],
                    [type |-> "output",
                     content |-> Str("SWITCHING TO RTL VIEW... GATE LEVEL PRIMITIVES EXPOSED.")] >>]_vars

\* C16 witness: `theme silicon` was submitted to a Terminal whose history
\* already held the lines of an earlier command, under the light theme.
C16_Witness ==
    /\ lastCall = TerminalCall(<<"theme", " ", "silicon">>)
    /\ theme = "silicon"
    /\ Len(history) = Len(InitialHistory) + 4
    /\ history[Len(InitialHistory) + 2].content = Str("ACTIVATING CLEAN ROOM PROTOCOLS... ILLUMINATION: 100%")
    /\ history[Len(history)].content = Str("SWITCHING TO RTL VIEW... GATE LEVEL PRIMITIVES EXPOSED.")

\* the lower-cased first token of a non-blank text
FirstToken(input) == Text(ToLowerCase(Split(Trim(input))[1]))

\* the command names of the Terminal and of the command palette
TerminalKnown == DOMAIN TerminalCommands \cup {"clear", "theme", "resume"}
PaletteKnown == PaletteCommands

\* C17: a text whose first token is not a command name makes the Terminal
\* print bash: <cmd>: command not found after the input line, and the
\* palette show E492: Not a command: <cmd>; nothing else happens: no
\* callback, download or scroll, the theme stays, the history is kept and
\* the palette stays open.
C17_UnknownCommand ==
    [][(SubmitStep /\ Trim(lastCall'.input) # <<>>) =>
          LET input == lastCall'.input
              cmd == FirstToken(input)
          IN  /\ (lastCall'.form = "terminal" /\ cmd \notin TerminalKnown) =>
                     /\ history' = Echo(history, input,
                                        Str("bash: " \o cmd \o ": command not found"))
                     /\ effects' = <<>>
                     /\ theme' = theme
                     /\ hasError' = hasError
              /\ (lastCall'.form = "palette" /\ cmd \notin PaletteKnown) =>
                     /\ output' = Str("E492: Not a command: " \o cmd)
                     /\ effects' = <<>>
                     /\ theme' = theme
                     /\ isOpen']_vars

\* the value onThemeChange is called with for a theme argument, "" for none
ThemeOf(arg) ==
    IF arg = Str("silicon") THEN "silicon"
    ELSE IF arg = Str("light") THEN "light"
    ELSE IF arg \in {Str("dark"), Str("default")} THEN "default"
    ELSE ""

\* C18: in the Terminal and in the palette, theme with the argument
\* silicon, light, dark or default calls onThemeChange with silicon, light,
\* default and default; with no argument or any other one it shows the
\* usage message and does not call onThemeChange.
C18_ThemeValues ==
    [][(SubmitStep /\ Trim(lastCall'.input) # <<>>
            /\ FirstToken(lastCall'.input) = "theme") =>
          LET input == lastCall'.input
              th == ThemeOf(LowerAt(Split(Trim(input)), 1))
          IN  IF th # ""
              THEN effects' = <<Effect("onThemeChange", th)>> /\ theme' = th
              ELSE /\ effects' = <<>>
                   /\ theme' = theme
                   /\ lastCall'.form = "terminal" =>
                          history' = Echo(history, input, Str("Usage: theme [silicon | light | dark]"))
                   /\ lastCall'.form = "palette" =>
                          output' = Str("Usage: theme [dark|light|silicon]")]_vars

\* a word in lower case
LowerWord(w) == IF w \in DOMAIN LowerCaseOf THEN LowerCaseOf[w] ELSE w

\* the tokens separated by one space each, the first two in lower case,
\* with no whitespace around
RECURSIVE Joined(_, _)
Joined(tokens, i) ==
    IF i > Len(tokens) THEN <<>>
    ELSE (IF i > 1 THEN <<" ">> ELSE <<>>)
             \o (IF i <= 2 THEN [k \in 1..Len(tokens[i]) |-> LowerWord(tokens[i][k])]
                 ELSE tokens[i])
             \o Joined(tokens, i + 1)

Canonical(input) == Joined(Split(Trim(input)), 1)

\* the content of the last line of a history, Null for an empty history
OutputLine(hist) == IF hist = <<>> THEN Null ELSE hist[Len(hist)].content

\* C19: a submitted text has the output line and the side effects of its
\* canonical form (first token and theme argument in lower case, tokens
\* separated by single spaces, no whitespace around): texts that differ
\* in letter case or whitespace only are treated alike.
C19_CaseAndWhitespace ==
    [][(SubmitStep /\ Trim(lastCall'.input) # <<>>) =>
          LET c == Canonical(lastCall'.input)
          IN  /\ lastCall'.form = "terminal" =>
                     LET r == HandleCommand(history, c)
                     IN  IF RenderThrows(r.history)
                         THEN hasError' /\ effects' = r.effects \o <<Effect("throw", "render")>>
                         ELSE /\ effects' = r.effects
                              /\ theme' = ThemeAfter(theme, r.effects)
                              /\ OutputLine(history') = OutputLine(r.history)
                              /\ Len(history') = Len(r.history)
              /\ lastCall'.form = "palette" =>
                     LET r == HandleSubmit(c)
                     IN  /\ effects' = r.effects
                         /\ theme' = ThemeAfter(theme, r.effects)
                         /\ output' = (IF r.output = Kept THEN output ELSE r.output)
                         /\ isOpen' = ~Did(r.effects, "onClose")]_vars

\* C19 witness: `THEME SILICON` typed with whitespace around and between
\* the words has switched the theme to silicon from the palette, after
\* `BOGUS` with whitespace around was answered for `bogus` by the Terminal.
C19_Witness ==
    /\ lastCall = PaletteCall(<<" ", "THEME", "\t", " ", "SILICON", " ">>)
    /\ theme = "silicon"
    /\ output = Str("SWITCHING TO RTL VIEW...")
    /\ Canonical(lastCall.input) = <<"theme", " ", "silicon">>
    /\ Len(history) = Len(InitialHistory) + 2
    /\ history[Len(history) - 1].content = Str("\tBOGUS ")
    /\ history[Len(history)].content = Str("bash: bogus: command not found")

\* C20: a descendant that throws puts the boundary into the failure state
\* with the error recorded; in the failure state the children are not
\* rendered; every step from the failure state stays in it with the same
\* error, whatever timeouts run, except the reload, which starts the page
\* anew.
C20_FailureUntilReload ==
    /\ [][(~hasError /\ \E err \in Errors : ThrowError(err)) =>
             (hasError' /\ error' \in Errors)]_vars
    /\ []((hasError <=> error # Null)
            /\ (hasError => (~ContentMounted /\ signals = <<>> /\ packets = <<>>
                                 /\ hitTimers = <<>> /\ activeHits = {})))
    /\ [][(hasError /\ hasError') => (error' = error /\ ~ContentMounted')]_vars
    /\ [][(hasError /\ ~hasError') =>
             (Reload /\ ~bootComplete' /\ removals' = <<>> /\ expiries' = <<>>)]_vars

\* C20 witness: in the failure state the removal timeout of a signal
\* emitted before the failure has run, an expiry timeout is still pending,
\* and the failure screen is still shown.
C20_Witness ==
    /\ hasError
    /\ error \in Errors
    /\ removals = <<>>
    /\ expiries # <<>>

\* a registerTarget call added a handle to the registry
RegisterStep ==
    \E cat \in {"skills", "trace"} : Range(targets'[cat]) \ Range(targets[cat]) # {}

\* C21: the main content is mounted only while bootComplete is true.  While
\* bootComplete is false the registry, the signal collection, Hit State and
\* the set of SignalPacket instances with their timers are empty; a step in
\* which registerTarget adds a handle ends with bootComplete true, a step
\* in which emitSignal adds a signal or a SignalPacket is instantiated
\* starts and ends with it true; and bootComplete does not go from true to
\* false as long as AppContent stays mounted.
C21_BootBlocksContent ==
    /\ [](~bootComplete =>
            /\ targets = [skills |-> <<>>, trace |-> <<>>]
            /\ signals = <<>> /\ packets = <<>> /\ hitTimers = <<>>
            /\ activeHits = {})
    /\ [][RegisterStep => bootComplete']_vars
    /\ [][(Len(signals') > Len(signals) \/ Len(packets') > Len(packets))
             => bootComplete /\ bootComplete']_vars
    /\ [][(bootComplete /\ ~hasError') => bootComplete']_vars

\* C21 witness: after boot completion the handles are registered and a
\* signal with its SignalPacket is in flight.
C21_Witness ==
    /\ bootComplete
    /\ targets.skills # <<>> /\ targets.trace # <<>>
    /\ signals # <<>> /\ packets # <<>> /\ hitTimers # <<>>

\* the timeouts of instance inst that have run
LineEvents(inst) == SelectSeq(bootEvents, LAMBDA e : e.inst = inst /\ e.kind = "line")
CompleteEvents(inst) == SelectSeq(bootEvents, LAMBDA e : e.inst = inst /\ e.kind = "complete")

\* the instances that can have mounted: the first one and the one mounted
\* when the warning is dismissed
BootInstances == {1, 2}

\* C22: a BootSequence appends the lines of bootLog one at a time in bootLog
\* order, each at a strictly later time than the line before (the pending
\* line timeouts of an instance are due in index order), the displayed list
\* of the mounted instance is the lines appended so far, and onComplete is
\* invoked exactly once per instance: not before the last line was
\* appended, 800 ms after that append, never a second time, and eventually.
C22_BootLinesThenComplete ==
    /\ [](\A inst \in BootInstances :
            LET ls == LineEvents(inst)
                cs == CompleteEvents(inst)
            IN  /\ \A i \in 1..Len(ls) : ls[i].index = i - 1
                /\ \A i \in 1..(Len(ls) - 1) : ls[i].at < ls[i + 1].at
                /\ BootSequenceMounted(inst) =>
                       lines = [i \in 1..Len(ls) |-> BootLog[i]]
                /\ Len(cs) <= 1
                /\ cs # <<>> =>
                       /\ Len(ls) = Len(BootLog)
                       /\ cs[1].at = ls[Len(ls)].at + BootTicks(CompleteMs))
    /\ [](\A j, k \in 1..Len(bootTimers) :
            (/\ bootTimers[j].inst = bootTimers[k].inst
             /\ bootTimers[j].kind = "line" /\ bootTimers[k].kind = "line"
             /\ bootTimers[j].index < bootTimers[k].index)
                => bootTimers[j].rem < bootTimers[k].rem)
    /\ [][Len(lines') <= Len(lines) + 1]_vars
    /\ \A inst \in BootInstances :
           [](bootInst >= inst => <>(CompleteEvents(inst) # <<>>))

\* C22 witness: on a desktop viewport the one BootSequence has appended
\* every line and has called onComplete, and the main content is mounted.
C22_Witness ==
    /\ innerWidth >= MobileWidth
    /\ Len(LineEvents(1)) = Len(BootLog)
    /\ Len(CompleteEvents(1)) = 1
    /\ bootComplete

\* C30: on a narrow viewport bootComplete does not become true while the
\* mobile warning is shown, and onComplete is invoked at most once in a
\* session.
C30_NoBootBehindWarning ==
    /\ ~(showMobileWarning /\ bootComplete)
    /\ Len(SelectSeq(bootEvents, LAMBDA e : e.kind = "complete")) <= 1

\* every interval started by scramble() has been cleared
AllStopped == \A i \in 1..Len(scrambles) : ~scrambles[i].running

\* C23: every scramble stops after finitely many runs of its interval
\* callback (at most 8 * text.length + 1 of them, and a cleared interval
\* never runs again), every started scramble does stop, and whenever no
\* scramble is running the displayed text is the text prop, also after two
\* scrambles have overlapped.
C23_ScrambleSettles ==
    /\ [](AllStopped => displayText = CyberTextProp)
    /\ [](\A i \in 1..Len(scrambles) :
            /\ scrambles[i].iterations <= Eighths * Len(CyberTextProp) + 1
            /\ scrambles[i].running => scrambles[i].iterations <= Eighths * Len(CyberTextProp))
    /\ [][\A i \in 1..Len(scrambles) : ~scrambles[i].running => scrambles'[i] = scrambles[i]]_vars
    /\ \A i \in 1..MaxScrambles :
           [](Len(scrambles) >= i => <>(Len(scrambles) >= i /\ ~scrambles[i].running))

\* C23 witness: a scramble started by mouse-enter while the scramble of the
\* mount effect was running; both have stopped and the text has settled.
C23_Witness ==
    /\ Len(scrambles) = MaxScrambles
    /\ scrambles[Len(scrambles)].overlapped
    /\ AllStopped
    /\ displayText = CyberTextProp

\* C24: a g keydown that the handler accepts scrolls to the top if and only
\* if the g keydown accepted before it did not scroll to the top and was
\* less than 500 ms earlier; the scroll resets gCount, so the g after a
\* scroll never scrolls.  An accepted keydown of another key leaves gCount
\* and lastKeyTime as they are and does not scroll to the top; a keydown
\* with target INPUT or TEXTAREA or with meta, ctrl or alt changes neither
\* the scroll offset nor gCount nor lastKeyTime.
C24_DoubleG ==
    [][\A e \in KeyEvents :
          HandleKeyDown(e) =>
              /\ Ignored(e) => UNCHANGED <<scrollY, gCount, lastKeyTime>>
              /\ (~Ignored(e) /\ e.key = "g") =>
                     /\ lastEvent'.scrolledTop <=>
                            /\ prevG # NoG
                            /\ ~prevG.scrolledTop
                            /\ (now - prevG.at) * TickMs < GWindowMs
                     /\ lastEvent'.scrolledTop => scrollY' = 0 /\ gCount' = 0
                     /\ prevG.scrolledTop => ~lastEvent'.scrolledTop
              /\ (~Ignored(e) /\ e.key # "g") =>
                     /\ UNCHANGED <<gCount, lastKeyTime>>
                     /\ scrollY' = 0 => scrollY = 0 \/ e.key = "k"]_vars

\* C24 witness: the page was scrolled down, and the second of two g presses
\* with other keydowns in between has scrolled it to the top.
C24_Witness ==
    /\ lastEvent.key = "g"
    /\ lastEvent.scrolledTop
    /\ lastEvent.interrupted
    /\ lastEvent.from > 0
    /\ scrollY = 0

\* the text is empty or whitespace only
Blank(input) == \A i \in 1..Len(input) : input[i] \in Whitespace

\* the first word of the text is clear, in any letter case
ClearText(input) ==
    \E i \in 1..Len(input) :
        /\ input[i] \in {"clear", "Clear"}
        /\ \A j \in 1..(i - 1) : input[j] \in Whitespace

\* C25: submitting clear to the Terminal, in any letter case and with any
\* arguments, leaves the history empty whatever it held (the clear line is
\* not recorded), empties the input field, keeps the theme and calls
\* nothing; submitting an empty or blank text keeps the history and the
\* theme.
C25_ClearAndBlank ==
    [][\A input \in Inputs :
          (SubmitStep /\ lastCall' = TerminalCall(input)) =>
              /\ ClearText(input) =>
                     /\ history' = <<>>
                     /\ terminalInput' = <<>>
                     /\ theme' = theme
                     /\ effects' = <<>>
              /\ Blank(input) => history' = history /\ theme' = theme]_vars

\* C25 witness: clear with an argument has emptied a history that held a
\* command and its output, while the silicon theme was on.
C25_Witness ==
    /\ lastCall = TerminalCall(<<"Clear", " ", "silicon">>)
    /\ history = <<>>
    /\ theme = "silicon"

\* the id of the hitTarget call made in this step
RaisedId == expiries'[Len(expiries')].hit

\* C26: whenever a timeout of a SignalPacket raises a hit for its picked
\* handle, the element of that handle is mounted and the id raised is the
\* id of the component that registered the handle, so that this component
\* and no other is highlighted.
C26_HitHighlightsRegistrant ==
    [][\A k \in 1..Len(hitTimers) :
          (FireHit(k) /\ HitStep) =>
              /\ IsMounted(hitTimers[k].target)
              /\ RaisedId = ComponentId(hitTimers[k].target)]_vars

\* the pending timeouts of the i-th mounted packet for a stage
TimersOf(i, stage) ==
    {k \in 1..Len(hitTimers) : hitTimers[k].inst = i /\ hitTimers[k].stage = stage}

\* how many timeouts due at age `due` a packet of age `age` can have
\* pending: one before, none after, and either in the tick it is due
PendingAt(age, due) == IF age < due THEN {1} ELSE IF age = due THEN {0, 1} ELSE {0}

\* C27: a mounted SignalPacket has exactly one skills timeout until it is
\* 1.0 time-units old and exactly one trace timeout until it is 2.0
\* time-units old, and none afterwards; a timeout runs at that age, while
\* its signal is in the collection and younger than the 2.5 lifetime, and
\* raises a hit, of its own category, if and only if the packet picked a
\* handle; and a packet picks no handle exactly for a category that is
\* empty when it is instantiated.
C27_OneHitPerCategory ==
    /\ [](\A i \in 1..Len(packets) :
            /\ Cardinality(TimersOf(i, "mid")) \in PendingAt(signals[i].age, Ticks(MidHitMs))
            /\ Cardinality(TimersOf(i, "end")) \in PendingAt(signals[i].age, Ticks(EndHitMs)))
    /\ [][\A k \in 1..Len(hitTimers) :
             FireHit(k) =>
                 LET t == hitTimers[k]
                 IN  /\ t.inst \in 1..Len(signals)
                     /\ signals[t.inst].age = Ticks(IF t.stage = "mid" THEN MidHitMs ELSE EndHitMs)
                     /\ signals[t.inst].age < Lifetime
                     /\ signals'[t.inst] = signals[t.inst]
                     /\ HitStep <=> t.target # Undefined
                     /\ HitStep => RaisedId.prefix = (IF t.stage = "mid" THEN "skill" ELSE "trace")]_vars
    /\ [][EmitStep =>
             /\ packets'[Len(packets')].skillTarget = Undefined <=> targets.skills = <<>>
             /\ packets'[Len(packets')].traceTarget = Undefined <=> targets.trace = <<>>]_vars

\* C27 witness: a packet that picked a handle of each category is 2.0
\* time-units old, both its timeouts have run, and the trace hit is in Hit
\* State.
C27_Witness ==
    \E i \in 1..Len(packets) :
        /\ packets[i].skillTarget # Undefined /\ packets[i].traceTarget # Undefined
        /\ signals[i].age = Ticks(EndHitMs)
        /\ TimersOf(i, "mid") = {} /\ TimersOf(i, "end") = {}
        /\ \E id \in activeHits : id.prefix = "trace"

\* C28: if from some point on no signal is emitted, then from some point
\* on the signal collection and Hit State are empty and stay empty; and
\* whenever no timeout of a signal is pending, both are empty.
C28_Quiescence ==
    /\ (<>[][~EmitStep]_vars) => <>[](signals = <<>> /\ activeHits = {})
    /\ []((removals = <<>> /\ hitTimers = <<>> /\ expiries = <<>>)
             => (signals = <<>> /\ activeHits = {}))

\* C28 witness: every timeout has run after two signals whose hits on the
\* same id overlapped, and the collection and Hit State are empty again.
C28_Witness ==
    /\ signals = <<>> /\ activeHits = {}
    /\ removals = <<>> /\ hitTimers = <<>>
    /\ Len(expiries) = 1 /\ expiries[1].overlapped /\ expiries[1].rem = 0
    /\ ContentMounted

\* the handle is registered and its element is in the DOM
Resolvable(ref) == ref # Undefined /\ IsMounted(ref)

\* C29: a stage whose picked handle is mounted is the centre of the
\* handle's element in document coordinates, whatever that point is; a
\* stage differs from the resolved point only when the category was empty
\* or the handle is not mounted.
C29_FallbackOnlyForUnresolved ==
    \A i \in 1..Len(packets) :
        /\ Resolvable(packets[i].skillTarget) =>
               SafeMid(i) = DocCenter(packets[i].skillTarget)
        /\ Resolvable(packets[i].traceTarget) =>
               SafeEnd(i) = DocCenter(packets[i].traceTarget)
====
